---- MODULE Spec2Model ----
(***************************************************************************)
(* medallion: construction, serialisation and verification of compact      *)
(* signed tokens (JWT).  A token string is a sequence of characters; the    *)
(* header and payload segments are base64url (no padding) of JSON text.     *)
(* Strings are modelled as sequences of one-character strings, so that      *)
(* splitting on '.', base64 and JSON are computed and not assumed.          *)
(***************************************************************************)
EXTENDS Integers, Sequences, FiniteSets, TLC

(***************************************************************************)
(* let x = e; F(x): e is evaluated once and F is applied to its value       *)
(***************************************************************************)

Let(e, F(_)) == CHOOSE r \in {F(x) : x \in {e}} : TRUE

(***************************************************************************)
(* Characters and bytes                                                     *)
(***************************************************************************)

\* the printable ASCII characters, Ascii[i] has code 31 + i (code 96 is
\* written "grave")
Ascii ==
  <<" ", "!", "\"", "#", "$", "%", "&", "'", "(", ")", "*", "+", ",", "-", ".", "/",
    "0", "1", "2", "3", "4", "5", "6", "7", "8", "9", ":", ";", "<", "=", ">", "?",
    "@", "A", "B", "C", "D", "E", "F", "G", "H", "I", "J", "K", "L", "M", "N", "O",
    "P", "Q", "R", "S", "T", "U", "V", "W", "X", "Y", "Z", "[", "\\", "]", "^", "_",
    "grave", "a", "b", "c", "d", "e", "f", "g", "h", "i", "j", "k", "l", "m", "n", "o",
    "p", "q", "r", "s", "t", "u", "v", "w", "x", "y", "z", "{", "|", "}", "~">>

AsciiChars == {Ascii[i] : i \in 1..Len(Ascii)}

\* str::as_bytes on one character
ByteOf == [c \in AsciiChars |-> 31 + (CHOOSE i \in 1..Len(Ascii) : Ascii[i] = c)]

\* the character of a byte; bytes outside printable ASCII have none
IsPrintable(b) == b >= 32 /\ b <= 126

CharOf(b) == Ascii[b - 31]

as_bytes(s) == Let(s, LAMBDA x : [i \in 1..Len(x) |-> ByteOf[x[i]]])

\* String::from_utf8 restricted to printable ASCII
AllPrintable(bs) == \A i \in 1..Len(bs) : IsPrintable(bs[i])

from_bytes(bs) == Let(bs, LAMBDA x : [i \in 1..Len(x) |-> CharOf(x[i])])

(***************************************************************************)
(* base64, URL_SAFE_NO_PAD (RFC 4648 section 5, no '=')                     *)
(***************************************************************************)

URL_SAFE ==
  <<"A", "B", "C", "D", "E", "F", "G", "H", "I", "J", "K", "L", "M", "N", "O", "P",
    "Q", "R", "S", "T", "U", "V", "W", "X", "Y", "Z", "a", "b", "c", "d", "e", "f",
    "g", "h", "i", "j", "k", "l", "m", "n", "o", "p", "q", "r", "s", "t", "u", "v",
    "w", "x", "y", "z", "0", "1", "2", "3", "4", "5", "6", "7", "8", "9", "-", "_">>

Base64Chars == {URL_SAFE[i] : i \in 1..64}

SextetOf == [c \in Base64Chars |-> (CHOOSE i \in 1..64 : URL_SAFE[i] = c) - 1]

SextetChar(n) == URL_SAFE[n + 1]

\* the sextet k of the encoding: 6 bits of the bytes, the bits after the
\* last byte being 0
SextetAt(bs, k) ==
  LET i  == 3 * ((k - 1) \div 4) + 1
      b0 == bs[i]
      b1 == IF i + 1 <= Len(bs) THEN bs[i + 1] ELSE 0
      b2 == IF i + 2 <= Len(bs) THEN bs[i + 2] ELSE 0
  IN  CASE (k - 1) % 4 = 0 -> b0 \div 4
        [] (k - 1) % 4 = 1 -> (b0 % 4) * 16 + b1 \div 16
        [] (k - 1) % 4 = 2 -> (b1 % 16) * 4 + b2 \div 64
        [] (k - 1) % 4 = 3 -> b2 % 64

\* base64::encode_config(bytes, URL_SAFE_NO_PAD)
encode_config(bs) ==
  Let(bs, LAMBDA x :
    [k \in 1..((4 * Len(x) + 2) \div 3) |-> SextetChar(SextetAt(x, k))])

\* the byte k of the decoding of the symbols s
ByteAt(s, k) ==
  LET i == 4 * ((k - 1) \div 3) + 1
      a == SextetOf[s[i]]
      b == SextetOf[s[i + 1]]
      c == SextetOf[s[i + 2]]
      d == SextetOf[s[i + 3]]
  IN  CASE (k - 1) % 3 = 0 -> a * 4 + b \div 16
        [] (k - 1) % 3 = 1 -> (b % 16) * 16 + c \div 4
        [] (k - 1) % 3 = 2 -> (c % 4) * 64 + d

\* the input is rejected on a character outside the alphabet, on a length
\* of 1 mod 4 and on non-zero trailing bits in the last symbol
Base64Valid(s) ==
  /\ \A i \in 1..Len(s) : s[i] \in Base64Chars
  /\ Len(s) % 4 # 1
  /\ Len(s) % 4 = 2 => SextetOf[s[Len(s)]] % 16 = 0
  /\ Len(s) % 4 = 3 => SextetOf[s[Len(s)]] % 4 = 0

\* base64::decode_config(s, URL_SAFE_NO_PAD): Ok(bytes) or Err
decode_config(s) ==
  Let(s, LAMBDA x :
    IF Base64Valid(x)
    THEN [ok |-> TRUE, val |-> [k \in 1..((3 * Len(x)) \div 4) |-> ByteAt(x, k)]]
    ELSE [ok |-> FALSE, err |-> "Base64"])

(***************************************************************************)
(* JSON (serde_json).  The modelled grammar has no whitespace and these     *)
(* values: objects, strings without escapes, unsigned decimal integers and  *)
(* null.  A text outside this grammar is a syntax error of the model.       *)
(***************************************************************************)

JNull == [t |-> "null", s |-> <<>>, n |-> 0, o |-> <<>>]

JStr(s) == [t |-> "str", s |-> s, n |-> 0, o |-> <<>>]

JNum(n) == [t |-> "num", s |-> <<>>, n |-> n, o |-> <<>>]

\* an object is its sequence of members [k |-> key, v |-> value]
JObj(members) == [t |-> "obj", s |-> <<>>, n |-> 0, o |-> members]

Member(k, v) == [k |-> k, v |-> v]

Digits == <<"0", "1", "2", "3", "4", "5", "6", "7", "8", "9">>

DigitChars == {Digits[i] : i \in 1..10}

DigitOf == [c \in DigitChars |-> (CHOOSE i \in 1..10 : Digits[i] = c) - 1]

RECURSIVE NatToChars(_)
NatToChars(n) ==
  IF n < 10 THEN <<Digits[n + 1]>>
  ELSE NatToChars(n \div 10) \o <<Digits[(n % 10) + 1]>>

RECURSIVE CharsToNat(_, _)
CharsToNat(s, acc) ==
  IF s = <<>> THEN acc ELSE CharsToNat(Tail(s), acc * 10 + DigitOf[Head(s)])

Quoted(s) == <<"\"">> \o s \o <<"\"">>

RECURSIVE to_string(_)
RECURSIVE MembersToString(_, _)
MembersToString(ms, i) ==
  IF i > Len(ms) THEN <<>>
  ELSE (IF i > 1 THEN <<",">> ELSE <<>>)
       \o Quoted(ms[i].k) \o <<":">> \o to_string(ms[i].v)
       \o MembersToString(ms, i + 1)

\* serde_json::to_string of a Value
to_string(v) ==
  CASE v.t = "null" -> <<"n", "u", "l", "l">>
    [] v.t = "str"  -> Quoted(v.s)
    [] v.t = "num"  -> NatToChars(v.n)
    [] v.t = "obj"  -> <<"{">> \o MembersToString(v.o, 1) \o <<"}">>

ParseFail == [ok |-> FALSE, val |-> JNull, next |-> 0]

ParseOk(v, next) == [ok |-> TRUE, val |-> v, next |-> next]

IsStringChar(c) == c \notin {"\"", "\\"}

IsDigit(c) == c \in DigitChars

\* the least index >= i of s that is not a plain string character
RECURSIVE StringEnd(_, _)
StringEnd(s, i) ==
  IF i > Len(s) \/ ~IsStringChar(s[i]) THEN i ELSE StringEnd(s, i + 1)

\* the least index >= i of s that is not a digit
RECURSIVE DigitsEnd(_, _)
DigitsEnd(s, i) ==
  IF i > Len(s) \/ ~IsDigit(s[i]) THEN i ELSE DigitsEnd(s, i + 1)

\* a string literal starting at the quote s[i]
ParseStringAt(s, i) ==
  LET j == StringEnd(s, i + 1)
  IN  IF j <= Len(s) /\ s[j] = "\""
      THEN ParseOk(JStr(SubSeq(s, i + 1, j - 1)), j + 1)
      ELSE ParseFail

\* an unsigned integer starting at the digit s[i]; no leading zero
ParseNumberAt(s, i) ==
  LET j == DigitsEnd(s, i)
  IN  IF s[i] = "0" /\ j > i + 1 THEN ParseFail
      ELSE ParseOk(JNum(CharsToNat(SubSeq(s, i, j - 1), 0)), j)

RECURSIVE ParseValue(_, _)
RECURSIVE ParseMembers(_, _, _)
ParseMembers(s, i, acc) ==
  IF i > Len(s) \/ s[i] # "\"" THEN ParseFail
  ELSE LET key == ParseStringAt(s, i)
       IN  IF ~key.ok \/ key.next > Len(s) \/ s[key.next] # ":" THEN ParseFail
           ELSE LET val == ParseValue(s, key.next + 1)
                    all == Append(acc, Member(key.val.s, val.val))
                IN  IF ~val.ok \/ val.next > Len(s) THEN ParseFail
                    ELSE IF s[val.next] = "}" THEN ParseOk(JObj(all), val.next + 1)
                    ELSE IF s[val.next] = "," THEN ParseMembers(s, val.next + 1, all)
                    ELSE ParseFail

ParseValue(s, i) ==
  IF i > Len(s) THEN ParseFail
  ELSE IF s[i] = "\"" THEN ParseStringAt(s, i)
  ELSE IF IsDigit(s[i]) THEN ParseNumberAt(s, i)
  ELSE IF s[i] = "n" THEN
    IF i + 3 <= Len(s) /\ SubSeq(s, i, i + 3) = <<"n", "u", "l", "l">>
    THEN ParseOk(JNull, i + 4) ELSE ParseFail
  ELSE IF s[i] = "{" THEN
    IF i + 1 <= Len(s) /\ s[i + 1] = "}" THEN ParseOk(JObj(<<>>), i + 2)
    ELSE ParseMembers(s, i + 1, <<>>)
  ELSE ParseFail

\* serde_json::from_slice to a Value: the whole input is one value
from_slice(bs) ==
  IF ~AllPrintable(bs) THEN [ok |-> FALSE, err |-> "Json"]
  ELSE Let(from_bytes(bs), LAMBDA s :
         Let(ParseValue(s, 1), LAMBDA r :
           IF r.ok /\ r.next = Len(s) + 1 THEN [ok |-> TRUE, val |-> r.val]
           ELSE [ok |-> FALSE, err |-> "Json"]))

\* byte-wise order of two strings, the order of the keys of serde_json::Map
RECURSIVE StrLess(_, _)
StrLess(a, b) ==
  IF b = <<>> THEN FALSE
  ELSE IF a = <<>> THEN TRUE
  ELSE IF ByteOf[Head(a)] # ByteOf[Head(b)] THEN ByteOf[Head(a)] < ByteOf[Head(b)]
  ELSE StrLess(Tail(a), Tail(b))

\* Map::insert: the members stay sorted by key, an equal key is overwritten
RECURSIVE MapInsert(_, _)
MapInsert(map, m) ==
  IF map = <<>> THEN <<m>>
  ELSE IF Head(map).k = m.k THEN <<m>> \o Tail(map)
  ELSE IF StrLess(m.k, Head(map).k) THEN <<m>> \o map
  ELSE <<Head(map)>> \o MapInsert(Tail(map), m)

\* Map::extend(other): insert every member of other, in order
RECURSIVE MapExtend(_, _)
MapExtend(map, other) ==
  IF other = <<>> THEN map
  ELSE MapExtend(MapInsert(map, Head(other)), Tail(other))

MapKeys(map) == {map[i].k : i \in 1..Len(map)}

\* the value of a key that the map has
MapGet(map, k) == map[CHOOSE i \in 1..Len(map) : map[i].k = k].v

(***************************************************************************)
(* Option, Result                                                           *)
(***************************************************************************)

None == <<>>

Some(x) == <<x>>

Ok(x) == [ok |-> TRUE, val |-> x]

Err(e) == [ok |-> FALSE, err |-> e]

(***************************************************************************)
(* Algorithm and Header<T> (header.rs)                                      *)
(***************************************************************************)

Algorithm == {"HS256", "HS384", "HS512", "RS256", "RS384", "RS512"}

\* the serialised name of a variant
AlgorithmName ==
  [a \in Algorithm |->
     CASE a = "HS256" -> <<"H", "S", "2", "5", "6">>
       [] a = "HS384" -> <<"H", "S", "3", "8", "4">>
       [] a = "HS512" -> <<"H", "S", "5", "1", "2">>
       [] a = "RS256" -> <<"R", "S", "2", "5", "6">>
       [] a = "RS384" -> <<"R", "S", "3", "8", "4">>
       [] a = "RS512" -> <<"R", "S", "5", "1", "2">>]

K_alg == <<"a", "l", "g">>

K_headers == <<"h", "e", "a", "d", "e", "r", "s">>

K_kid == <<"k", "i", "d">>

K_typ == <<"t", "y", "p">>

\* The extension type T of Header<T>: the unit type, or a struct of fields
\* that are String (opt = FALSE) or Option<String> (opt = TRUE).
UnitType == [kind |-> "unit", fields |-> <<>>]

StructType(fields) == [kind |-> "struct", fields |-> fields]

Field(name, opt) == [name |-> name, opt |-> opt]

\* struct CustomHeaders { kid: String, typ: String }
CustomHeaders == StructType(<<Field(K_kid, FALSE), Field(K_typ, FALSE)>>)

\* a struct whose only field is optional
OptionalHeaders == StructType(<<Field(K_kid, TRUE)>>)

\* a struct with a field named as the fixed field of the header
AlgHeaders == StructType(<<Field(K_alg, FALSE)>>)

\* a struct with a field named as the extension field of the header
HeadersHeaders == StructType(<<Field(K_headers, FALSE)>>)

FieldNames(T) == {T.fields[i].name : i \in 1..Len(T.fields)}

\* the value of the unit type, the empty tuple
Unit == <<>>

\* A value of a struct T is the sequence of the values of its fields, each
\* the sequence of its strings: one for a String, at most one for an
\* Option<String>.
\* Serialize for T: () is null, a struct is an object of all its fields,
\* a None field being null
RECURSIVE FieldsToMap(_, _, _)
FieldsToMap(T, x, i) ==
  IF i > Len(T.fields) THEN <<>>
  ELSE MapInsert(FieldsToMap(T, x, i + 1),
                 Member(T.fields[i].name,
                        IF x[i] = None THEN JNull ELSE JStr(x[i][1])))

ExtToValue(T, x) ==
  IF T.kind = "unit" THEN JNull ELSE JObj(FieldsToMap(T, x, 1))

\* the indices of the members of an object with a key
Occurrences(members, k) == {i \in 1..Len(members) : members[i].k = k}

\* Deserialize for a field of T from the members of an object
DeField(f, members) ==
  LET occ == Occurrences(members, f.name)
      v   == members[CHOOSE i \in occ : TRUE].v
  IN  IF Cardinality(occ) > 1 THEN Err("Json")
      ELSE IF occ = {} THEN (IF f.opt THEN Ok(None) ELSE Err("Json"))
      ELSE IF v.t = "str" THEN Ok(Some(v.s))
      ELSE IF v.t = "null" /\ f.opt THEN Ok(None)
      ELSE Err("Json")

\* Deserialize for T from a Value: () takes null only, a struct takes an
\* object, ignores the keys it does not know and rejects a repeated field
DeExt(T, v) ==
  IF T.kind = "unit" THEN (IF v.t = "null" THEN Ok(Unit) ELSE Err("Json"))
  ELSE IF v.t # "obj" THEN Err("Json")
  ELSE IF \E i \in 1..Len(T.fields) : ~DeField(T.fields[i], v.o).ok THEN Err("Json")
  ELSE Ok([i \in 1..Len(T.fields) |-> DeField(T.fields[i], v.o).val])

\* Deserialize for Option<T>: null is None, anything else is Some(T)
DeOption(T, v) ==
  IF v.t = "null" THEN Ok(None)
  ELSE LET r == DeExt(T, v) IN IF r.ok THEN Ok(Some(r.val)) ELSE r

\* Deserialize for Algorithm: the string naming a variant
DeAlgorithm(v) ==
  IF v.t = "str" /\ \E a \in Algorithm : AlgorithmName[a] = v.s
  THEN Ok(CHOOSE a \in Algorithm : AlgorithmName[a] = v.s)
  ELSE Err("Json")

\* pub struct Header<T> { alg, #[serde(skip_serializing)] headers }
Header(alg, headers) == [alg |-> alg, headers |-> headers]

\* the derived Deserialize of Header<T>: alg is required; headers is read
\* from the key "headers" and is None when the key is missing
DeHeader(T, v) ==
  IF v.t # "obj" THEN Err("Json")
  ELSE LET algs == Occurrences(v.o, K_alg)
           hdrs == Occurrences(v.o, K_headers)
           alg  == DeAlgorithm(v.o[CHOOSE i \in algs : TRUE].v)
           hdr  == IF hdrs = {} THEN Ok(None)
                   ELSE DeOption(T, v.o[CHOOSE i \in hdrs : TRUE].v)
       IN  IF Cardinality(algs) # 1 \/ Cardinality(hdrs) > 1 THEN Err("Json")
           ELSE IF ~alg.ok \/ ~hdr.ok THEN Err("Json")
           ELSE Ok(Header(alg.val, hdr.val))

\* the derived Serialize of Header<T>: headers is skipped
HeaderToValue(h) == JObj(<<Member(K_alg, JStr(AlgorithmName[h.alg]))>>)

\* Header::from_base64
Header_from_base64(T, raw) ==
  Let(decode_config(raw), LAMBDA data :
    IF ~data.ok THEN Err("Base64")
    ELSE Let(from_slice(data.val), LAMBDA json :
      IF ~json.ok THEN Err("Json")
      ELSE Let(DeHeader(T, json.val), LAMBDA own :
        IF ~own.ok THEN Err("Json")
        ELSE Let(DeOption(T, json.val), LAMBDA headers :
          Ok(Header(own.val.alg, IF headers.ok THEN headers.val ELSE None))))))

\* Header::to_base64
Header_to_base64(T, h) ==
  Let(HeaderToValue(h).o, LAMBDA own_map :
    IF h.headers # None THEN
      Let(ExtToValue(T, h.headers[1]), LAMBDA extra :
        IF extra.t = "obj"
        THEN Let(JObj(MapExtend(own_map, extra.o)), LAMBDA merged :
               Ok(encode_config(as_bytes(to_string(merged)))))
        ELSE Err("Could not access additional headers."))
    ELSE Ok(encode_config(as_bytes(to_string(JObj(own_map))))))

(***************************************************************************)
(* Payload (payload.rs): the registered claims nbf and exp                  *)
(***************************************************************************)

K_nbf == <<"n", "b", "f">>

K_exp == <<"e", "x", "p">>

Payload(nbf, exp) == [nbf |-> nbf, exp |-> exp]

\* Deserialize for a field of type Option<u64>
DeOptU64(members, k) ==
  LET occ == Occurrences(members, k)
      v   == members[CHOOSE i \in occ : TRUE].v
  IN  IF Cardinality(occ) > 1 THEN Err("Json")
      ELSE IF occ = {} \/ v.t = "null" THEN Ok(None)
      ELSE IF v.t = "num" THEN Ok(Some(v.n))
      ELSE Err("Json")

\* Payload::from_base64
Payload_from_base64(raw) ==
  Let(decode_config(raw), LAMBDA data :
    IF ~data.ok THEN Err("Base64")
    ELSE Let(from_slice(data.val), LAMBDA json :
      IF ~json.ok \/ json.val.t # "obj" THEN Err("Json")
      ELSE LET nbf == DeOptU64(json.val.o, K_nbf)
               exp == DeOptU64(json.val.o, K_exp)
           IN  IF ~nbf.ok \/ ~exp.ok THEN Err("Json")
               ELSE Ok(Payload(nbf.val, exp.val))))

\* Payload::to_base64: one flat object of the claims that are present
Payload_to_base64(p) ==
  LET m1 == IF p.nbf = None THEN <<>> ELSE <<Member(K_nbf, JNum(p.nbf[1]))>>
      m2 == IF p.exp = None THEN m1 ELSE MapInsert(m1, Member(K_exp, JNum(p.exp[1])))
  IN  Let(JObj(m2), LAMBDA claims : Ok(encode_config(as_bytes(to_string(claims)))))

\* Payload::verify at the clock value now
Payload_verify(p, now) ==
  /\ p.nbf = None \/ p.nbf[1] <= now
  /\ p.exp = None \/ p.exp[1] > now

(***************************************************************************)
(* Keys and the signature engine (crypt)                                    *)
(***************************************************************************)

\* Key bytes are a shared secret, or the PEM of the private or of the public
\* half of the RSA key pair with the same id.
Key(kind, id) == [kind |-> kind, id |-> id]

KeyKinds == {"secret", "private", "public"}

KeyByte(key) ==
  (CASE key.kind = "secret" -> 16 [] key.kind = "private" -> 32
     [] key.kind = "public" -> 48) + key.id

DigestByte(digest) ==
  CASE digest = "sha256" -> 1 [] digest = "sha384" -> 2 [] digest = "sha512" -> 3

Primitive(family, digest) == [family |-> family, digest |-> digest]

\* the match on the algorithm of Token::signed
sign_dispatch(alg) ==
  CASE alg = "HS256" -> Primitive("hmac", "sha256")
    [] alg = "HS384" -> Primitive("hmac", "sha384")
    [] alg = "HS512" -> Primitive("hmac", "sha512")
    [] alg = "RS256" -> Primitive("rsa", "sha256")
    [] alg = "RS384" -> Primitive("rsa", "sha384")
    [] alg = "RS512" -> Primitive("rsa", "sha512")

\* a verification that takes the family from the algorithm and always
\* digests with SHA-256
verify_dispatch_sha256(alg) ==
  Primitive(IF alg \in {"HS256", "HS384", "HS512"} THEN "hmac" ELSE "rsa", "sha256")

\* the match on the algorithm of Token::verify
verify_dispatch(alg) ==
  CASE alg = "HS256" -> Primitive("hmac", "sha256")
    [] alg = "HS384" -> Primitive("hmac", "sha384")
    [] alg = "HS512" -> Primitive("hmac", "sha512")
    [] alg = "RS256" -> Primitive("rsa", "sha256")
    [] alg = "RS384" -> Primitive("rsa", "sha384")
    [] alg = "RS512" -> Primitive("rsa", "sha512")

\* An HMAC over data: it determines the digest, the key bytes and the data.
Hmac(data, key, digest) ==
  <<DigestByte(digest), KeyByte(key)>> \o as_bytes(data)

\* An RSA signature over data by the private key of a pair: it determines
\* the digest, the pair and the data.
RsaSignature(data, id, digest) ==
  <<128 + DigestByte(digest), id>> \o as_bytes(data)

\* crypt::sign_hmac, crypt::sign_rsa: an RSA signature needs a private key
sign_hmac(data, key, digest) == Ok(encode_config(Hmac(data, key, digest)))

sign_rsa(data, key, digest) ==
  IF key.kind # "private" THEN Err("Key")
  ELSE Ok(encode_config(RsaSignature(data, key.id, digest)))

\* crypt::verify_hmac, crypt::verify_rsa: the target is decoded and compared
\* with the signature of data; an RSA verification needs a public key
verify_hmac(target, data, key, digest) ==
  Let(decode_config(target), LAMBDA bytes :
    IF ~bytes.ok THEN Err("Base64")
    ELSE Ok(bytes.val = Hmac(data, key, digest)))

verify_rsa(target, data, key, digest) ==
  Let(decode_config(target), LAMBDA bytes :
    IF ~bytes.ok THEN Err("Base64")
    ELSE IF key.kind # "public" THEN Err("Key")
    ELSE Ok(bytes.val = RsaSignature(data, key.id, digest)))

\* crypt::sign(data, key, alg)
crypt_sign(data, key, alg) ==
  LET p == sign_dispatch(alg)
  IN  IF p.family = "hmac" THEN sign_hmac(data, key, p.digest)
      ELSE sign_rsa(data, key, p.digest)

\* crypt::verify(target, data, key, alg)
crypt_verify(target, data, key, alg) ==
  LET p == verify_dispatch(alg)
  IN  IF p.family = "hmac" THEN verify_hmac(target, data, key, p.digest)
      ELSE verify_rsa(target, data, key, p.digest)

(***************************************************************************)
(* Token<H, C> (jwt/mod.rs)                                                 *)
(***************************************************************************)

\* the indices of the '.' of a string
Dots(s) == {i \in 1..Len(s) : s[i] = "."}

\* the k-th of the indices dots, in increasing order
NthDot(dots, k) == CHOOSE d \in dots : Cardinality({e \in dots : e < d}) = k - 1

\* str::split('.'): the pieces between the dots, at least one piece
split(s) ==
  Let(s, LAMBDA x : Let(Dots(x), LAMBDA dots :
    [k \in 1..(Cardinality(dots) + 1) |->
       SubSeq(x, IF k = 1 THEN 1 ELSE NthDot(dots, k - 1) + 1,
                 IF k = Cardinality(dots) + 1 THEN Len(x) ELSE NthDot(dots, k) - 1)]))

\* a split at the first dot in place of the last
rsplitn2_first(s) ==
  Let(s, LAMBDA x : Let(Dots(x), LAMBDA dots :
    IF dots = {} THEN <<x>>
    ELSE Let(CHOOSE i \in dots : \A j \in dots : i <= j, LAMBDA d :
           <<SubSeq(x, d + 1, Len(x)), SubSeq(x, 1, d - 1)>>)))

\* str::rsplitn(2, '.'): the part after the last dot, then the part before
\* it; one piece when there is no dot
rsplitn2(s) ==
  Let(s, LAMBDA x : Let(Dots(x), LAMBDA dots :
    IF dots = {} THEN <<x>>
    ELSE Let(CHOOSE i \in dots : \A j \in dots : i >= j, LAMBDA d :
           <<SubSeq(x, d + 1, Len(x)), SubSeq(x, 1, d - 1)>>)))

\* a token of header extension type T
Token(T, raw, header, payload) ==
  [T |-> T, raw |-> raw, header |-> header, payload |-> payload]

\* the outcome of an indexing out of bounds
Panic == [ok |-> FALSE, err |-> "panic"]

\* Token::new
Token_new(T, header, payload) == Token(T, None, header, payload)

\* Token::parse: the fields of the token are evaluated in order, pieces[1]
\* only after the header decoded
Token_parse(T, raw) ==
  Let(split(raw), LAMBDA pieces :
    Let(Header_from_base64(T, pieces[1]), LAMBDA header :
      IF ~header.ok THEN header
      ELSE IF Len(pieces) < 2 THEN Panic
      ELSE Let(Payload_from_base64(pieces[2]), LAMBDA payload :
        IF ~payload.ok THEN payload
        ELSE Ok(Token(T, Some(raw), header.val, payload.val)))))

\* the call of the signature engine an operation made, if any
NoCall == <<>>

Call(fn, target, data, key, alg, prim) ==
  <<[fn |-> fn, target |-> target, data |-> data, key |-> key, alg |-> alg,
     prim |-> prim]>>

\* the outcome of an operation on a token: what it returns, the token after
\* it and its call of the signature engine
Outcome(ret, self, call) == [ret |-> ret, self |-> self, call |-> call]

\* a verification of the signature alone
verify_raw_signature_only(self, raw, key, now) ==
  Let(rsplitn2(raw), LAMBDA pieces :
    LET sig  == pieces[1]
        data == pieces[2]
        alg  == self.header.alg
    IN  IF Len(pieces) < 2 THEN Outcome(Panic, self, NoCall)
        ELSE Outcome(crypt_verify(sig, data, key, alg), self,
                     Call("verify", sig, data, key, alg, verify_dispatch(alg))))

\* Token::verify on the stored string: the split at the last dot, then
\* payload.verify() && crypt::verify(sig, data, key, alg)?
verify_raw(self, raw, key, now) ==
  Let(rsplitn2(raw), LAMBDA pieces :
    LET sig  == pieces[1]
        data == pieces[2]
        alg  == self.header.alg
    IN  IF Len(pieces) < 2 THEN Outcome(Panic, self, NoCall)
        ELSE IF ~Payload_verify(self.payload, now)
          THEN Outcome(Ok(FALSE), self, NoCall)
        ELSE Outcome(crypt_verify(sig, data, key, alg), self,
                     Call("verify", sig, data, key, alg, verify_dispatch(alg))))

\* a verification that takes an absent raw for the empty string
Token_verify_unguarded(self, key, now) ==
  verify_raw(self, IF self.raw = None THEN <<>> ELSE self.raw[1], key, now)

\* a verification that takes raw out of the token (Option::take)
Token_verify_taking(self, key, now) ==
  LET taken == [self EXCEPT !.raw = None]
      o     == verify_raw(self, self.raw[1], key, now)
  IN  IF self.raw = None THEN Outcome(Ok(FALSE), taken, NoCall)
      ELSE Outcome(o.ret, taken, o.call)

\* Token::verify at the clock value now
Token_verify(self, key, now) ==
  IF self.raw = None THEN Outcome(Ok(FALSE), self, NoCall)
  ELSE verify_raw(self, self.raw[1], key, now)

\* Token::sign
Token_sign(self, key) ==
  Let(Header_to_base64(self.T, self.header), LAMBDA header :
    IF ~header.ok THEN Outcome(header, self, NoCall)
    ELSE Let(Payload_to_base64(self.payload), LAMBDA payload :
      IF ~payload.ok THEN Outcome(payload, self, NoCall)
      ELSE Let(header.val \o <<".">> \o payload.val, LAMBDA data :
        Let(crypt_sign(data, key, self.header.alg), LAMBDA sig :
          LET alg  == self.header.alg
              call == Call("sign", <<>>, data, key, alg, sign_dispatch(alg))
          IN  IF ~sig.ok THEN Outcome(sig, self, call)
              ELSE Outcome(Ok(data \o <<".">> \o sig.val), self, call)))))

\* impl PartialEq for Token: header and payload, not raw
Token_eq(a, b) == a.header = b.header /\ a.payload = b.payload

(***************************************************************************)
(* The inputs of the model                                                  *)
(***************************************************************************)

\* the clock and the times of nbf and exp range over 0..MaxTime
MaxTime == 1

Times == 0..MaxTime

ExtTypes == {UnitType, CustomHeaders, OptionalHeaders, AlgHeaders, HeadersHeaders}

\* the values a String field of an extension takes
FieldValues(name) ==
  CASE name = K_kid     -> {<<"K", "1">>}
    [] name = K_typ     -> {<<"J", "W", "T">>}
    [] name = K_alg     -> {AlgorithmName["RS256"], <<"n", "o">>}
    [] name = K_headers -> {<<"x">>}

\* the values of a field
ValuesOf(f) ==
  (IF f.opt THEN {None} ELSE {}) \cup {Some(v) : v \in FieldValues(f.name)}

\* the values of the fields i.. of T
RECURSIVE FieldsValues(_, _)
FieldsValues(T, i) ==
  IF i > Len(T.fields) THEN {<<>>}
  ELSE {<<v>> \o x : v \in ValuesOf(T.fields[i]), x \in FieldsValues(T, i + 1)}

ExtValues(T) == IF T.kind = "unit" THEN {Unit} ELSE FieldsValues(T, 1)

Headers(T) ==
  {Header(a, h) : a \in Algorithm, h \in {None} \cup {Some(x) : x \in ExtValues(T)}}

Payloads ==
  {Payload(n, e) : n \in {None} \cup {Some(t) : t \in Times},
                   e \in {None} \cup {Some(t) : t \in Times}}

\* a shared secret and the two halves of an RSA key pair
Keys == {Key("secret", 1), Key("private", 1), Key("public", 1)}

\* the keys a signer holds: the secret or the private half
SigningKeys == {key \in Keys : key.kind # "public"}

(***************************************************************************)
(* The state: the token the last constructor returned (None before the     *)
(* first and after a failed parse), the clock, the last operation with      *)
(* what it returned, and the first verification of the token with whether   *)
(* a sign was called since                                                  *)
(***************************************************************************)

VARIABLES token, now, last, first

vars == <<token, now, last, first>>

NoKey == Key("none", 0)

\* what an operation returned, by the type of its Ok value
OkUnit == [ok |-> TRUE]

OkBool(b) == [ok |-> TRUE, bool |-> b]

OkString(s) == [ok |-> TRUE, string |-> s]

OkToken(t) == [ok |-> TRUE, token |-> t]

OkHeader(h) == [ok |-> TRUE, header |-> h]

Returned(type, r) ==
  IF ~r.ok THEN r
  ELSE CASE type = "bool"   -> OkBool(r.val)
         [] type = "String" -> OkString(r.val)
         [] type = "Token"  -> OkToken(r.val)
         [] type = "Header" -> OkHeader(r.val)

\* an operation: its name, the extension type, its string argument, its key,
\* the clock at the call, what it returned, its call of the signature
\* engine, and the value it is about: for a parse the token whose signing
\* gave the argument, for to_base64 the header
Op(op, T, input, key, at, ret, call, of) ==
  [op |-> op, T |-> T, input |-> input, key |-> key, at |-> at, ret |-> ret,
   call |-> call, of |-> of]

Init ==
  /\ token = None
  /\ now = 0
  /\ last = Op("init", UnitType, <<>>, NoKey, 0, OkUnit, NoCall, None)
  /\ first = None

\* Token::new(header, payload): a behaviour follows one token at a time, a
\* new one is made when there is none
New(T, header, payload) ==
  /\ token = None
  /\ token' = Some(Token_new(T, header, payload))
  /\ last' = Op("new", T, <<>>, NoKey, now, OkUnit, NoCall, None)
  /\ first' = None
  /\ UNCHANGED now

\* Token::parse(raw); of is the token whose signing gave raw, if any
Parse(T, raw, of) ==
  /\ \E r \in {Token_parse(T, raw)} :
       /\ last' = Op("parse", T, raw, NoKey, now, Returned("Token", r), NoCall, of)
       /\ token' = IF r.ok THEN Some(r.val) ELSE None
  /\ first' = None
  /\ UNCHANGED now

\* token.sign(key)
Sign(key) ==
  /\ token # None
  /\ \E o \in {Token_sign(token[1], key)} :
         /\ token' = Some(o.self)
         /\ last' = Op("sign", token[1].T, <<>>, key, now,
                      Returned("String", o.ret), o.call, None)
  /\ first' = IF first = None THEN None ELSE Some([first[1] EXCEPT !.signs = TRUE])
  /\ UNCHANGED now

\* token.verify(key)
Verify(key) ==
  /\ token # None
  /\ \E o \in {Token_verify(token[1], key, now)} :
         /\ token' = Some(o.self)
         /\ last' = Op("verify", token[1].T, <<>>, key, now,
                      Returned("bool", o.ret), o.call, None)
         /\ first' = IF first = None
                     THEN Some([key |-> key, at |-> now,
                                ret |-> Returned("bool", o.ret),
                                signs |-> FALSE])
                     ELSE first
  /\ UNCHANGED now

\* a second of wall-clock time passes
Tick ==
  /\ now < MaxTime
  /\ now' = now + 1
  /\ UNCHANGED <<token, last, first>>

\* the string the last sign returned is parsed back
ParseSigned ==
  /\ last.op = "sign" /\ last.ret.ok
  /\ Parse(last.T, last.ret.string, Some(token[1]))

\* the string the last sign returned is parsed after a change on the way:
\* a fourth segment is appended, or the signature segment is dropped
ParseChanged ==
  /\ last.op = "sign" /\ last.ret.ok
  /\ \E raw \in {last.ret.string \o <<".", "A", "A">>,
                   rsplitn2(last.ret.string)[2]} :
       Parse(last.T, raw, None)

\* The life of a token: the headers of the six algorithms without extension
\* fields (Header<()>).
LifeTypes == {UnitType}

LifeHeaders(T) ==
  {h \in Headers(T) : h.headers = None}

Next ==
  \/ \E T \in LifeTypes : \E h \in LifeHeaders(T), p \in Payloads : New(T, h, p)
  \/ \E key \in SigningKeys : Sign(key)
  \/ \E key \in Keys : Verify(key)
  \/ ParseSigned
  \/ ParseChanged
  \/ Tick

Spec == Init /\ [][Next]_vars

\* The round trip of the tests: every header of every extension type is
\* signed and the string is parsed back.
NextRoundtrip ==
  \/ \E T \in ExtTypes : \E h \in Headers(T), p \in Payloads : New(T, h, p)
  \/ \E key \in SigningKeys : Sign(key)
  \/ ParseSigned

SpecRoundtrip == Init /\ [][NextRoundtrip]_vars

(***************************************************************************)
(* Token::parse on the strings of up to MaxSegments segments                *)
(***************************************************************************)

MaxSegments == 4

\* the segment of {"alg":"HS256"}, the segment of {} and the empty segment
HeaderSegment == Header_to_base64(UnitType, Header("HS256", None)).val

PayloadSegment == Payload_to_base64(Payload(None, None)).val

SegmentPool == {HeaderSegment, PayloadSegment, <<>>}

RECURSIVE Join(_)
Join(segs) ==
  IF Len(segs) = 1 THEN segs[1] ELSE segs[1] \o <<".">> \o Join(Tail(segs))

ParseInputs ==
  {Join(segs) : segs \in UNION {[1..n -> SegmentPool] : n \in 1..MaxSegments}}

NextParse == \E raw \in ParseInputs : Parse(UnitType, raw, None)

SpecParse == Init /\ [][NextParse]_vars

(***************************************************************************)
(* Header::from_base64 and Header::to_base64 on their own                   *)
(***************************************************************************)

FromBase64(T, raw) ==
  /\ last' = Op("from_base64", T, raw, NoKey, now,
                Returned("Header", Header_from_base64(T, raw)), NoCall, None)
  /\ UNCHANGED <<token, now, first>>

ToBase64(T, h) ==
  /\ last' = Op("to_base64", T, <<>>, NoKey, now,
                Returned("String", Header_to_base64(T, h)), NoCall, Some(h))
  /\ UNCHANGED <<token, now, first>>

\* the tests roundtrip and roundtrip_custom: the encoded header is decoded
FromBase64Encoded ==
  /\ last.op = "to_base64" /\ last.ret.ok
  /\ FromBase64(last.T, last.ret.string)

\* the members a header object of the inputs is made of
AlgMembers ==
  {<<>>, <<Member(K_alg, JStr(AlgorithmName["HS256"]))>>,
   <<Member(K_alg, JStr(AlgorithmName["RS512"]))>>,
   <<Member(K_alg, JStr(<<"n", "o">>))>>, <<Member(K_alg, JNum(5))>>}

HeadersMembers ==
  {<<>>, <<Member(K_headers, JNum(1))>>, <<Member(K_headers, JNull)>>}

KidMembers ==
  {<<>>, <<Member(K_kid, JStr(<<"K", "1">>))>>, <<Member(K_kid, JNum(7))>>}

TypMembers == {<<>>, <<Member(K_typ, JStr(<<"J", "W", "T">>))>>}

JsonTexts ==
  {to_string(JObj(a \o h \o k \o t)) :
     a \in AlgMembers, h \in HeadersMembers, k \in KidMembers, t \in TypMembers}
  \cup {to_string(JNull), to_string(JNum(5)), <<"{", "\"", "a", "l", "g", "\"">>}

\* segments of JSON texts, and two strings that are not base64url
HeaderInputs ==
  {encode_config(as_bytes(t)) : t \in JsonTexts} \cup {<<"!", "!">>, <<"A">>}

NextCodec ==
  \/ \E T \in ExtTypes : \E raw \in HeaderInputs : FromBase64(T, raw)
  \/ \E T \in ExtTypes : \E h \in Headers(T) : ToBase64(T, h)
  \/ FromBase64Encoded

SpecCodec == Init /\ [][NextCodec]_vars

(***************************************************************************)
(* The claims                                                               *)
(***************************************************************************)

\* the string has exactly 3 non-empty segments
ThreeSegments(raw) ==
  /\ Cardinality(Dots(raw)) = 2
  /\ raw[1] # "." /\ raw[Len(raw)] # "."
  /\ \A i \in Dots(raw) : i + 1 \notin Dots(raw)

\* C1: Token::parse never panics, returns an error when the input does not
\* split on '.' into exactly 3 non-empty segments, and returns a token only
\* for an input of exactly 3 non-empty segments.
C1_ParseNeedsThreeSegments ==
  last.op = "parse" =>
    /\ last.ret # Panic
    /\ last.ret.ok => ThreeSegments(last.input)

\* the parts of a string before and after its last '.'
LastDot(raw) == CHOOSE i \in Dots(raw) : \A j \in Dots(raw) : j <= i

SigningInput(raw) == SubSeq(raw, 1, LastDot(raw) - 1)

Signature(raw) == SubSeq(raw, LastDot(raw) + 1, Len(raw))

\* the signature engine accepts the stored string of a token under a key
EngineAccepts(tok, key) ==
  crypt_verify(Signature(tok.raw[1]), SigningInput(tok.raw[1]), key,
               tok.header.alg) = Ok(TRUE)

VerifiedParsed == last.op = "verify" /\ token # None /\ token[1].raw # None

\* C2: verify on a parsed token returns true exactly when the payload is
\* valid at the time of the call and the signature engine accepts the part
\* of raw after its last '.' as the signature of the part before it, under
\* the key and the header's alg.
C2_VerifyIsClaimsAndSignature ==
  VerifiedParsed =>
    /\ Dots(token[1].raw[1]) # {}
    /\ (last.ret = OkBool(TRUE)) <=>
         (Payload_verify(token[1].payload, last.at)
            /\ EngineAccepts(token[1], last.key))

\* the token was accepted first, and then, the signature still accepted,
\* rejected once its payload was no longer valid
C2_Witness ==
  /\ VerifiedParsed
  /\ first # None /\ first[1].ret = OkBool(TRUE) /\ first[1].key = last.key
  /\ EngineAccepts(token[1], last.key)
  /\ ~Payload_verify(token[1].payload, last.at)
  /\ last.ret = OkBool(FALSE)

\* a key that verification under the algorithm cannot use
Unusable(key, alg) == alg \in {"RS256", "RS384", "RS512"} /\ key.kind # "public"

\* C3: verify on a token that was built with Token::new and never parsed
\* returns Ok(false) and does not call the signature engine, whatever the
\* header, the payload and the key.
C3_UnparsedVerifiesFalse ==
  (last.op = "verify" /\ token # None /\ token[1].raw = None) =>
    last.ret = OkBool(FALSE) /\ last.call = NoCall

C3_Witness ==
  /\ last.op = "verify" /\ token # None /\ token[1].raw = None
  /\ Unusable(last.key, token[1].header.alg)
  /\ Payload_verify(token[1].payload, last.at)
  /\ last.ret = OkBool(FALSE)

\* C4: the string that sign returned parses back to a token equal to the
\* signed one (header and payload).
C4_RoundTrip ==
  (last.op = "parse" /\ last.of # None) =>
    last.ret.ok /\ Token_eq(last.ret.token, last.of[1])

\* the stored string of the token is what sign gives for it under a key
\* that the key of the verification matches
SignedFor(tok, key) ==
  \E k \in Keys :
    /\ Token_sign(tok, k).ret = Ok(tok.raw[1])
    /\ IF sign_dispatch(tok.header.alg).family = "hmac" THEN key = k
       ELSE k.kind = "private" /\ key = Key("public", k.id)

\* C5: verify with the correct key on a signed and parsed token returns
\* false when exp is present and exp <= now or nbf is present and nbf > now,
\* and true when (nbf absent or nbf <= now) and (exp absent or exp > now).
C5_TemporalValidity ==
  (VerifiedParsed /\ SignedFor(token[1], last.key)) =>
    LET nbf == token[1].payload.nbf
        exp == token[1].payload.exp
        t   == last.at
    IN  /\ ((exp # None /\ exp[1] <= t) \/ (nbf # None /\ nbf[1] > t))
             => last.ret = OkBool(FALSE)
        /\ ((nbf = None \/ nbf[1] <= t) /\ (exp = None \/ exp[1] > t))
             => last.ret = OkBool(TRUE)

\* accepted at nbf == now, then rejected at exp == now
C5_Witness ==
  /\ VerifiedParsed /\ SignedFor(token[1], last.key)
  /\ first # None /\ first[1].key = last.key
  /\ token[1].payload.nbf = Some(first[1].at) /\ first[1].ret = OkBool(TRUE)
  /\ token[1].payload.exp = Some(last.at) /\ last.ret = OkBool(FALSE)

\* C6: verify on a parsed token with a key that is unusable for the
\* header's algorithm returns an error, whatever the payload.
C6_UnusableKeyIsError ==
  (VerifiedParsed /\ Unusable(last.key, token[1].header.alg)) => ~last.ret.ok

\* the primitive of an algorithm: the family of its prefix and the digest
\* of its suffix
PrimitiveOf(alg) ==
  Primitive(IF alg \in {"HS256", "HS384", "HS512"} THEN "hmac" ELSE "rsa",
            CASE alg \in {"HS256", "RS256"} -> "sha256"
              [] alg \in {"HS384", "RS384"} -> "sha384"
              [] alg \in {"HS512", "RS512"} -> "sha512")

\* C7: every call of the signature engine by sign or verify is for the
\* header's alg and uses the primitive of that alg, HMAC for HS* and RSA for
\* RS* with the SHA of the number, whatever the key: verify as sign.
C7_DispatchOnAlg ==
  (last.op \in {"sign", "verify"} /\ last.call # NoCall) =>
    /\ last.call[1].alg = token[1].header.alg
    /\ last.call[1].prim = PrimitiveOf(token[1].header.alg)

\* an RSA verification was dispatched for a key that is a shared secret
C7_Witness ==
  /\ last.op = "verify" /\ last.call # NoCall
  /\ token[1].header.alg = "RS384" /\ last.key.kind = "secret"
  /\ last.call[1].prim = Primitive("rsa", "sha384")

\* the JSON value of a segment is an object with one alg naming a variant
HasValidAlg(v) ==
  /\ v.t = "obj"
  /\ Cardinality(Occurrences(v.o, K_alg)) = 1
  /\ \E a \in Algorithm : MapGet(v.o, K_alg) = JStr(AlgorithmName[a])

\* C8: Header::from_base64 fails when the segment is not base64url or its
\* JSON has no valid alg, and succeeds with that alg for every segment whose
\* JSON object has a valid alg, with headers = None when the object does
\* not decode as T.
C8_FromBase64 ==
  last.op = "from_base64" =>
    LET data == decode_config(last.input)
        json == from_slice(data.val)
    IN  IF data.ok /\ json.ok /\ HasValidAlg(json.val)
        THEN /\ last.ret.ok
             /\ MapGet(json.val.o, K_alg) = JStr(AlgorithmName[last.ret.header.alg])
             /\ ~DeExt(last.T, json.val).ok => last.ret.header.headers = None
        ELSE ~last.ret.ok

\* C9: Header::to_base64 encodes one flat object whose keys are alg and the
\* field names of the extensions, alg with the header's alg and each
\* extension field of another name with its own value.
C9_ToBase64Flat ==
  (last.op = "to_base64" /\ last.ret.ok) =>
    LET h     == last.of[1]
        json  == from_slice(decode_config(last.ret.string).val)
        names == IF h.headers = None THEN {} ELSE FieldNames(last.T)
    IN  /\ json.ok /\ json.val.t = "obj"
        /\ MapKeys(json.val.o) = {K_alg} \cup names
        /\ Len(json.val.o) = Cardinality(MapKeys(json.val.o))
        /\ MapGet(json.val.o, K_alg) = JStr(AlgorithmName[h.alg])
        /\ \A n \in names \ {K_alg} :
             MapGet(json.val.o, n) = MapGet(ExtToValue(last.T, h.headers[1]).o, n)

\* C10: raw is absent after Token::new and is the input after Token::parse;
\* sign and verify leave the token unchanged; a verify with the key and at
\* the clock value of the first verify of the token returns what it did.
C10_State ==
  /\ last.op = "new" => token[1].raw = None
  /\ (last.op = "parse" /\ last.ret.ok) => token[1].raw = Some(last.input)
  /\ (last.op = "verify" /\ first # None /\ first[1].key = last.key
        /\ first[1].at = last.at) => last.ret = first[1].ret

C10_Lifecycle ==
  /\ []C10_State
  /\ [][last'.op \in {"sign", "verify"} => token' = token]_vars

\* a parsed token is verified again after a sign, with the key and at the
\* clock value of its first verify
C10_Witness ==
  /\ VerifiedParsed
  /\ first # None /\ first[1].signs
  /\ first[1].key = last.key /\ first[1].at = last.at
  /\ first[1].ret = OkBool(TRUE)

\* the alg member of the JSON object in the header segment of a signed string
WrittenAlg(signed) ==
  Let(from_slice(decode_config(split(signed)[1]).val), LAMBDA json :
    IF json.ok /\ json.val.t = "obj" /\ K_alg \in MapKeys(json.val.o)
    THEN Some(MapGet(json.val.o, K_alg)) ELSE None)

\* C11: the alg written in the header segment of the string sign returned is
\* the algorithm sign gave the signature engine, and the token parsed from
\* that string carries the algorithm of the signed token, on which verify
\* dispatches; also when the extension has a field named alg.
C11_SignedAlgIsWrittenAlg ==
  /\ (last.op = "sign" /\ last.ret.ok) =>
       WrittenAlg(last.ret.string) = Some(JStr(AlgorithmName[last.call[1].alg]))
  /\ (last.op = "parse" /\ last.of # None) =>
       last.ret.ok /\ last.ret.token.header.alg = last.of[1].header.alg

\* a token whose extension has a field named alg was signed
C11_Witness ==
  /\ last.op = "sign" /\ last.ret.ok
  /\ K_alg \in FieldNames(last.T)
  /\ token[1].header.headers # None

====
